---- MODULE Spec2Model ----
(***************************************************************************)
(* Model of rust/src/lock.rs: the cross-process advisory Lock of the       *)
(* driver manager.  Each process runs Lock::acquire, Lock::exists,         *)
(* Lock::release and finally lets the Lock go out of scope.  Every         *)
(* filesystem or flock system call is one atomic step; processes           *)
(* interleave between system calls.  The file system follows Unix          *)
(* semantics: a path names an inode, an open descriptor keeps its inode    *)
(* alive after the path is unlinked, and flock() locks the inode an open   *)
(* descriptor refers to, not the path.                                     *)
(***************************************************************************)
EXTENDS Naturals, Sequences, FiniteSets

\* ---------------------------------------------------------------- bounds
NumProcs == 2

\* ------------------------------------------------------------- constants
LOCK_FILE == "sm.lock"

None == "<none>"
NoInode == 0
NoProc == 0

Procs == 1..NumProcs

\* The (target, single_file) pairs the processes call acquire with.
Calls ==
  { <<<<"c", "d">>, None>>,
    <<<<"c", "d", "f">>, "f">>,
    <<<<"ro">>, None>>,
    <<<<"ro", "x">>, None>> }

\* Directories in which no entry can be created or removed.
Unwritable == { <<"ro">> }

\* ------------------------------------------------------------ path algebra
Parent(t) == SubSeq(t, 1, Len(t) - 1)

Join(folder, name) == Append(folder, name)

Prefixes(t) == { SubSeq(t, 1, k) : k \in 0..Len(t) }

LockFolder(t, sf) == IF sf # None THEN Parent(t) ELSE t

SentinelPath(t, sf) == Join(LockFolder(t, sf), LOCK_FILE)

AllSentinels == { SentinelPath(c[1], c[2]) : c \in Calls }

Inodes == 1..(NumProcs + Cardinality(AllSentinels))

VARIABLES
  dirs,        \* the directories that exist
  files,       \* sentinel path -> inode linked there (NoInode: no file)
  flock,       \* inode -> process whose descriptor holds the exclusive lock
  pc,          \* where each process stands
  target,      \* argument of the acquire call the process is in
  single_file, \* argument of the acquire call the process is in
  file,        \* Lock.file: inode of the open descriptor (NoInode: none)
  path,        \* Lock.path
  existsRet,   \* what the last exists() on the current Lock returned
  lockErr,     \* lock_exclusive reported an error for the current Lock
  waited,      \* the acquire call the process is in found the lock held
  relCalls,    \* release calls on the current Lock: 0, 1, or 2 for more
  fresh,       \* the target did not exist when the acquire call began
  alone        \* no other process worked on path since acquire was called

vars == <<dirs, files, flock, pc, target, single_file, file, path,
          existsRet, lockErr, waited, relCalls, fresh, alone>>

\* ------------------------------------------------------------- file system
PathExists(s) == s \in dirs \/ (s \in DOMAIN files /\ files[s] # NoInode)

InUse(i) == (\E s \in DOMAIN files : files[s] = i) \/ (\E p \in Procs : file[p] = i)

NewInode == CHOOSE i \in Inodes : ~InUse(i) /\ \A j \in Inodes : j < i => InUse(j)

DeepestExisting(d) ==
  CHOOSE a \in Prefixes(d) \cap dirs :
    \A b \in Prefixes(d) \cap dirs : Len(b) <= Len(a)

\* create_path_if_not_exists / create_parent_path_if_not_exists succeed
CanEnsureDir(d) == d \in dirs \/ DeepestExisting(d) \notin Unwritable

\* File::create succeeds: the file is there to open, or can be created
CanCreateFile(s) ==
  /\ s \notin dirs
  /\ Parent(s) \in dirs
  /\ files[s] # NoInode \/ Parent(s) \notin Unwritable

Released(fl, p) == [i \in Inodes |-> IF fl[i] = p THEN NoProc ELSE fl[i]]

Startable == {"idle", "failed", "dropped"}

\* the process is inside acquire or owns a Lock
Active(p) == pc[p] \in {"create", "lock", "acquired", "unlock", "released"}

\* what acquire returned to the process
AcquireResult(p) ==
  IF pc[p] \in {"acquired", "unlock", "released"} THEN "Ok"
  ELSE IF pc[p] = "failed" THEN "IoError"
  ELSE "none"

\* ------------------------------------------------------------------- Init
Init ==
  /\ dirs = { <<>>, <<"ro">> }
  /\ files = [s \in AllSentinels |-> NoInode]
  /\ flock = [i \in Inodes |-> NoProc]
  /\ pc = [p \in Procs |-> "idle"]
  /\ target = [p \in Procs |-> <<>>]
  /\ single_file = [p \in Procs |-> None]
  /\ file = [p \in Procs |-> NoInode]
  /\ path = [p \in Procs |-> <<>>]
  /\ existsRet = [p \in Procs |-> "none"]
  /\ lockErr = [p \in Procs |-> FALSE]
  /\ waited = [p \in Procs |-> FALSE]
  /\ relCalls = [p \in Procs |-> 0]
  /\ fresh = [p \in Procs |-> FALSE]
  /\ alone = [p \in Procs |-> FALSE]

\* the Lock of p is gone: its fields are forgotten (path is kept when keep
\* is TRUE, to tell afterwards where the Lock was)
Forget(p, keep) ==
  /\ target' = [target EXCEPT ![p] = <<>>]
  /\ single_file' = [single_file EXCEPT ![p] = None]
  /\ file' = [file EXCEPT ![p] = NoInode]
  /\ path' = IF keep THEN path ELSE [path EXCEPT ![p] = <<>>]
  /\ relCalls' = [relCalls EXCEPT ![p] = 0]
  /\ existsRet' = [existsRet EXCEPT ![p] = "none"]
  /\ lockErr' = [lockErr EXCEPT ![p] = FALSE]
  /\ waited' = [waited EXCEPT ![p] = FALSE]
  /\ fresh' = [fresh EXCEPT ![p] = FALSE]
  /\ alone' = [alone EXCEPT ![p] = FALSE]

\* ---------------------------------------------------------------- acquire
\* lines 41-48: the lock folder is created, the sentinel path is derived
AcquireDirsOk(p, t, sf) ==
  /\ pc[p] \in Startable
  /\ CanEnsureDir(LockFolder(t, sf))
  /\ dirs' = dirs \cup Prefixes(LockFolder(t, sf))
  /\ target' = [target EXCEPT ![p] = t]
  /\ single_file' = [single_file EXCEPT ![p] = sf]
  /\ path' = [path EXCEPT ![p] = SentinelPath(t, sf)]
  /\ relCalls' = [relCalls EXCEPT ![p] = 0]
  /\ fresh' = [fresh EXCEPT ![p] = t \notin dirs]
  /\ alone' = [q \in Procs |->
                 IF q = p
                 THEN ~\E r \in Procs \ {p} :
                         Active(r) /\ path[r] = SentinelPath(t, sf)
                 ELSE IF Active(q) /\ path[q] = SentinelPath(t, sf)
                      THEN FALSE ELSE alone[q]]
  /\ pc' = [pc EXCEPT ![p] = "create"]
  /\ UNCHANGED <<files, flock, file, existsRet, lockErr, waited>>

\* the faulty variant: a failed directory creation is swallowed and acquire
\* goes on to File::create
AcquireDirsErrSwallowed(p, t, sf) ==
  /\ pc[p] \in Startable
  /\ ~CanEnsureDir(LockFolder(t, sf))
  /\ path' = [path EXCEPT ![p] = SentinelPath(t, sf)]
  /\ relCalls' = [relCalls EXCEPT ![p] = 0]
  /\ pc' = [pc EXCEPT ![p] = "acquired"]
  /\ UNCHANGED <<dirs, files, flock, target, single_file, file, existsRet,
                 lockErr, waited, fresh, alone>>

\* lines 42/45: the `?` returns the I/O error of the directory creation
AcquireDirsErr(p, t, sf) ==
  /\ pc[p] \in Startable
  /\ ~CanEnsureDir(LockFolder(t, sf))
  /\ Forget(p, FALSE)
  /\ pc' = [pc EXCEPT ![p] = "failed"]
  /\ UNCHANGED <<dirs, files, flock>>

\* line 49, success: File::create opens the file path names, creating it
\* (a new inode) when no file is there
AcquireCreateOk(p) ==
  /\ pc[p] = "create"
  /\ CanCreateFile(path[p])
  /\ LET inode == IF files[path[p]] # NoInode THEN files[path[p]] ELSE NewInode
     IN /\ files' = [files EXCEPT ![path[p]] = inode]
        /\ file' = [file EXCEPT ![p] = inode]
        /\ waited' = [waited EXCEPT ![p] = flock[inode] # NoProc]
  /\ pc' = [pc EXCEPT ![p] = "lock"]
  /\ UNCHANGED <<dirs, flock, target, single_file, path, existsRet,
                 lockErr, relCalls, fresh, alone>>

\* the faulty variant: the error of File::create is swallowed and acquire
\* returns a Lock without a file
AcquireCreateErrSwallowed(p) ==
  /\ pc[p] = "create"
  /\ ~CanCreateFile(path[p])
  /\ pc' = [pc EXCEPT ![p] = "acquired"]
  /\ UNCHANGED <<dirs, files, flock, target, single_file, file, path,
                 existsRet, lockErr, waited, relCalls, fresh, alone>>

\* line 49, failure: the `?` returns the I/O error of File::create
AcquireCreateErr(p) ==
  /\ pc[p] = "create"
  /\ ~CanCreateFile(path[p])
  /\ Forget(p, FALSE)
  /\ pc' = [pc EXCEPT ![p] = "failed"]
  /\ UNCHANGED <<dirs, files, flock>>

\* line 54: acquire returns; its arguments go out of scope
Returned(p) ==
  /\ target' = [target EXCEPT ![p] = <<>>]
  /\ single_file' = [single_file EXCEPT ![p] = None]
  /\ fresh' = [fresh EXCEPT ![p] = FALSE]

\* the blocking flock(LOCK_EX) can return: nobody holds the inode's lock
CanLock(p) == pc[p] = "lock" /\ flock[file[p]] = NoProc

\* the faulty variant: acquire returns without taking the exclusive lock
LockExclusiveNotTaken(p) ==
  /\ CanLock(p)
  /\ waited' = [waited EXCEPT ![p] = FALSE]
  /\ Returned(p)
  /\ pc' = [pc EXCEPT ![p] = "acquired"]
  /\ UNCHANGED <<dirs, files, flock, file, path, existsRet, lockErr,
                 relCalls, alone>>

\* lines 52-54: lock_exclusive returns Ok, acquire returns the Lock
LockExclusive(p) ==
  /\ CanLock(p)
  /\ flock' = [flock EXCEPT ![file[p]] = p]
  /\ waited' = [q \in Procs |->
                  IF q = p THEN FALSE
                  ELSE IF pc[q] = "lock" /\ file[q] = file[p]
                       THEN TRUE ELSE waited[q]]
  /\ Returned(p)
  /\ pc' = [pc EXCEPT ![p] = "acquired"]
  /\ UNCHANGED <<dirs, files, file, path, existsRet, lockErr, relCalls, alone>>

\* the faulty variant: the error of lock_exclusive is propagated with `?`
LockExclusiveErrPropagated(p) ==
  /\ pc[p] = "lock"
  /\ lockErr' = [lockErr EXCEPT ![p] = TRUE]
  /\ pc' = [pc EXCEPT ![p] = "failed"]
  /\ UNCHANGED <<dirs, files, flock, target, single_file, file, path,
                 existsRet, waited, relCalls, fresh, alone>>

\* lines 52-54: lock_exclusive reports an OS error, unwrap_or_default
\* swallows it and acquire returns the Lock all the same
LockExclusiveErr(p) ==
  /\ pc[p] = "lock"
  /\ lockErr' = [lockErr EXCEPT ![p] = TRUE]
  /\ waited' = [waited EXCEPT ![p] = FALSE]
  /\ Returned(p)
  /\ pc' = [pc EXCEPT ![p] = "acquired"]
  /\ UNCHANGED <<dirs, files, flock, file, path, existsRet, relCalls, alone>>

\* ----------------------------------------------------------------- exists
\* lines 62-64
Exists(p) ==
  /\ pc[p] \in {"acquired", "released"}
  /\ existsRet' = [existsRet EXCEPT ![p] =
                     IF PathExists(path[p]) THEN "true" ELSE "false"]
  /\ UNCHANGED <<dirs, files, flock, pc, target, single_file, file, path,
                 lockErr, waited, relCalls, fresh, alone>>

\* ---------------------------------------------------------------- release
\* remove_file succeeds: a file is linked at the path
CanRemoveFile(s) == files[s] # NoInode /\ Parent(s) \notin Unwritable

\* the faulty variant: release leaves the sentinel file on disk
ReleaseRemoveKeepsFile(p) ==
  /\ pc[p] \in {"acquired", "released"}
  /\ relCalls' = [relCalls EXCEPT ![p] = IF @ < 2 THEN @ + 1 ELSE @]
  /\ lockErr' = [lockErr EXCEPT ![p] = FALSE]
  /\ existsRet' = [existsRet EXCEPT ![p] = "none"]
  /\ pc' = [pc EXCEPT ![p] = "unlock"]
  /\ UNCHANGED <<dirs, files, flock, target, single_file, file, path,
                 waited, fresh, alone>>

\* the faulty variant: the result of remove_file is unwrapped
ReleaseRemoveUnwrap(p) ==
  /\ pc[p] \in {"acquired", "released"}
  /\ IF CanRemoveFile(path[p])
     THEN /\ files' = [files EXCEPT ![path[p]] = NoInode]
          /\ pc' = [pc EXCEPT ![p] = "unlock"]
     ELSE /\ files' = files
          /\ pc' = [pc EXCEPT ![p] = "panicked"]
  /\ relCalls' = [relCalls EXCEPT ![p] = IF @ < 2 THEN @ + 1 ELSE @]
  /\ lockErr' = [lockErr EXCEPT ![p] = FALSE]
  /\ existsRet' = [existsRet EXCEPT ![p] = "none"]
  /\ UNCHANGED <<dirs, flock, target, single_file, file, path,
                 waited, fresh, alone>>

\* the faulty variant: release unlocks first, where it should remove the
\* sentinel file
ReleaseUnlocksFirst(p) ==
  /\ pc[p] \in {"acquired", "released"}
  /\ flock' = Released(flock, p)
  /\ relCalls' = [relCalls EXCEPT ![p] = IF @ < 2 THEN @ + 1 ELSE @]
  /\ lockErr' = [lockErr EXCEPT ![p] = FALSE]
  /\ existsRet' = [existsRet EXCEPT ![p] = "none"]
  /\ pc' = [pc EXCEPT ![p] = "unlock"]
  /\ UNCHANGED <<dirs, files, target, single_file, file, path,
                 waited, fresh, alone>>

\* line 58: remove_file unlinks whatever file path names now; its error
\* (no file there) is swallowed by unwrap_or_default
ReleaseRemove(p) ==
  /\ pc[p] \in {"acquired", "released"}
  /\ files' = IF CanRemoveFile(path[p])
              THEN [files EXCEPT ![path[p]] = NoInode]
              ELSE files
  /\ relCalls' = [relCalls EXCEPT ![p] = IF @ < 2 THEN @ + 1 ELSE @]
  /\ lockErr' = [lockErr EXCEPT ![p] = FALSE]
  /\ existsRet' = [existsRet EXCEPT ![p] = "none"]
  /\ pc' = [pc EXCEPT ![p] = "unlock"]
  /\ UNCHANGED <<dirs, flock, target, single_file, file, path,
                 waited, fresh, alone>>

\* the faulty variant: release returns without unlocking
ReleaseUnlockSkipped(p) ==
  /\ pc[p] = "unlock"
  /\ pc' = [pc EXCEPT ![p] = "released"]
  /\ UNCHANGED <<dirs, files, flock, target, single_file, file, path,
                 existsRet, lockErr, waited, relCalls, fresh, alone>>

\* the faulty variant: release locks the descriptor again instead of
\* unlocking it
ReleaseUnlockRelocks(p) ==
  /\ pc[p] = "unlock"
  /\ flock' = IF flock[file[p]] \in {NoProc, p}
                THEN [flock EXCEPT ![file[p]] = p]
                ELSE flock
  /\ pc' = [pc EXCEPT ![p] = "released"]
  /\ UNCHANGED <<dirs, files, target, single_file, file, path,
                 existsRet, lockErr, waited, relCalls, fresh, alone>>

\* line 59: flock(LOCK_UN) on the descriptor; a no-op when it holds no lock
ReleaseUnlock(p) ==
  /\ pc[p] = "unlock"
  /\ flock' = Released(flock, p)
  /\ pc' = [pc EXCEPT ![p] = "released"]
  /\ UNCHANGED <<dirs, files, target, single_file, file, path,
                 existsRet, lockErr, waited, relCalls, fresh, alone>>

\* line 59: unlock reports an OS error, swallowed by unwrap_or_default
UnlockErr(p) ==
  /\ pc[p] = "unlock"
  /\ pc' = [pc EXCEPT ![p] = "released"]
  /\ UNCHANGED <<dirs, files, flock, target, single_file, file, path,
                 existsRet, lockErr, waited, relCalls, fresh, alone>>

\* ------------------------------------------------------------------- drop
\* the faulty variant: the descriptor leaks, the OS lock stays held
DropLeaks(p) ==
  /\ pc[p] \in {"acquired", "released"}
  /\ existsRet' = [existsRet EXCEPT ![p] = "none"]
  /\ pc' = [pc EXCEPT ![p] = IF relCalls[p] = 0 THEN "dropped" ELSE "idle"]
  /\ UNCHANGED <<dirs, files, flock, target, single_file, file, path,
                 lockErr, waited, relCalls, fresh, alone>>

\* the faulty variant: a destructor that also unlinks the sentinel file
DropRemoves(p) ==
  /\ pc[p] \in {"acquired", "released"}
  /\ files' = IF CanRemoveFile(path[p])
              THEN [files EXCEPT ![path[p]] = NoInode]
              ELSE files
  /\ flock' = Released(flock, p)
  /\ Forget(p, relCalls[p] = 0)
  /\ pc' = [pc EXCEPT ![p] = IF relCalls[p] = 0 THEN "dropped" ELSE "idle"]
  /\ UNCHANGED dirs

\* lines 29-32: Lock has no Drop of its own; going out of scope drops its
\* fields.  Dropping `file` closes the descriptor, which gives up the flock
\* it holds; dropping `path` frees a PathBuf and touches no file.  pc tells
\* afterwards whether release had been called ("idle") or not ("dropped").
Drop(p) ==
  /\ pc[p] \in {"acquired", "released"}
  /\ flock' = Released(flock, p)
  /\ Forget(p, relCalls[p] = 0)
  /\ pc' = [pc EXCEPT ![p] = IF relCalls[p] = 0 THEN "dropped" ELSE "idle"]
  /\ UNCHANGED <<dirs, files>>

\* ----------------------------------------------------------- specification
NextNoErr ==
  \E p \in Procs :
    \/ \E c \in Calls : AcquireDirsOk(p, c[1], c[2])
    \/ \E c \in Calls : AcquireDirsErr(p, c[1], c[2])
    \/ AcquireCreateOk(p)
    \/ AcquireCreateErr(p)
    \/ LockExclusive(p)
    \/ Exists(p)
    \/ ReleaseRemove(p)
    \/ ReleaseUnlock(p)
    \/ Drop(p)

OsLockError == \E p \in Procs : LockExclusiveErr(p) \/ UnlockErr(p)

Next == NextNoErr \/ OsLockError

\* the OS lock primitive may report errors
Spec == Init /\ [][Next]_vars

\* the OS lock primitive never reports an error
SpecNoErr == Init /\ [][NextNoErr]_vars

TypeOK ==
  /\ dirs \subseteq UNION { Prefixes(c[1]) : c \in Calls }
  /\ files \in [AllSentinels -> Inodes \cup {NoInode}]
  /\ flock \in [Inodes -> Procs \cup {NoProc}]
  /\ pc \in [Procs -> {"idle", "create", "lock", "acquired", "unlock",
                       "released", "dropped", "failed", "panicked"}]
  /\ file \in [Procs -> Inodes \cup {NoInode}]
  /\ existsRet \in [Procs -> {"none", "true", "false"}]
  /\ relCalls \in [Procs -> 0..2]
  /\ \A i \in Inodes : flock[i] # NoProc => file[flock[i]] = i

\* ------------------------------------------------------------------ claims
\* p owns a Lock that acquire has returned and on which release has not
\* been called
HoldsLock(p) == pc[p] = "acquired"

\* C1: with an OS lock primitive that reports no error, at most one process
\* at a time holds an un-released Lock on the same sentinel path.
MutualExclusion ==
  \A p, q \in Procs :
    (p # q /\ HoldsLock(p) /\ HoldsLock(q)) => path[p] # path[q]

\* C2: a Lock that acquire has returned holds, until release is called, the
\* exclusive OS lock on the file that its path names.
LockHeldOnPathFile ==
  \A p \in Procs :
    HoldsLock(p) => (files[path[p]] = file[p] /\ flock[file[p]] = p)

\* C3: every exists() on a Lock that acquire has returned and that is not
\* released returns true, whatever the other processes do.
ExistsTrueWhileHeld ==
  \A p \in Procs :
    (HoldsLock(p) /\ existsRet[p] # "none") => existsRet[p] = "true"

\* p's descriptor holds no OS lock
NotHolding(p) == \A i \in Inodes : flock[i] # p

\* C4: when a Lock goes out of scope without release having been called,
\* its descriptor is closed and the OS lock it held is released, so that a
\* contender blocked on the same file can obtain the lock.
DropReleasesLock ==
  [][\A p \in Procs :
       (Drop(p) /\ HoldsLock(p)) =>
         /\ file'[p] = NoInode
         /\ NotHolding(p)'
         /\ \A q \in Procs \ {p} :
              (pc[q] = "lock" /\ file[q] = file[p] /\ flock[file[p]] = p)
                => CanLock(q)']_vars

\* the lock of a holder that went out of scope is free for a waiting contender
DropFreesWaiter ==
  \E p, q \in Procs :
    /\ pc[p] = "dropped" /\ pc[q] = "lock"
    /\ path[q] = path[p] /\ waited[q] /\ CanLock(q)

SetupErrorReturnsNoLock ==
  /\ [](\A p \in Procs :
          pc[p] = "failed" =>
            (AcquireResult(p) = "IoError" /\ file[p] = NoInode /\ NotHolding(p)))
  /\ [][\A p \in Procs :
          ((\E c \in Calls : AcquireDirsErr(p, c[1], c[2])) \/ AcquireCreateErr(p))
            => (pc'[p] = "failed" /\ flock' = flock /\ files' = files)]_vars

\* an acquire failed in its setup while another process holds the lock
SetupFailedBesideHolder ==
  \E p, q \in Procs :
    pc[p] = "failed" /\ HoldsLock(q) /\ flock[file[q]] = q

\* C7: when lock_exclusive reports an OS error, acquire still returns Ok
\* with a Lock of the open handle and the sentinel path, and exists and
\* release work on that Lock as on one that holds the OS lock.
LockErrorSwallowed ==
  /\ [](\A p \in Procs :
          lockErr[p] =>
            /\ AcquireResult(p) = "Ok"
            /\ file[p] # NoInode
            /\ HoldsLock(p) => (ENABLED Exists(p) /\ ENABLED ReleaseRemove(p)))
  /\ [][\A p \in Procs :
          LockExclusiveErr(p) =>
            /\ HoldsLock(p)'
            /\ file'[p] = file[p]
            /\ path'[p] = SentinelPath(target[p], single_file[p])]_vars

\* a Lock returned after a lock error, on which exists() answered
LockReturnedAfterError ==
  \E p \in Procs :
    lockErr[p] /\ HoldsLock(p) /\ NotHolding(p) /\ existsRet[p] = "true"

\* C8: release never fails or panics, whatever the state of the Lock; it
\* goes on to the unlock when the delete fails, and a repeated release
\* leaves an unlocked Lock unlocked.
ReleaseNeverFails ==
  /\ [](\A p \in Procs :
          /\ pc[p] # "panicked"
          /\ pc[p] \in {"acquired", "released"} => ENABLED ReleaseRemove(p)
          /\ pc[p] = "unlock" => ENABLED ReleaseUnlock(p))
  /\ [][\A p \in Procs :
          /\ ReleaseRemove(p) => pc'[p] = "unlock"
          /\ ReleaseUnlock(p) => (pc'[p] = "released" /\ NotHolding(p)')
          /\ (ReleaseRemove(p) \/ ReleaseUnlock(p) \/ UnlockErr(p))
               => (NotHolding(p) => NotHolding(p)')]_vars

\* a second release, whose delete found no file, has completed its unlock
SecondReleaseDone ==
  \E p \in Procs :
    pc[p] = "released" /\ relCalls[p] = 2 /\ alone[p] /\ NotHolding(p)

\* C9: for a process that is the only one working on its sentinel path,
\* exists() after release() returns false.
ExistsFalseAfterRelease ==
  \A p \in Procs :
    (pc[p] = "released" /\ alone[p] /\ existsRet[p] # "none")
      => existsRet[p] = "false"

\* exists() was called after release() by a process alone on its path
ExistsCalledAfterRelease ==
  \E p \in Procs :
    pc[p] = "released" /\ alone[p] /\ existsRet[p] = "false"

\* C10: a successful directory-mode acquire on a target that did not exist
\* leaves the target directory and its ancestors created, the sentinel file
\* present at target/sm.lock and the Lock's path equal to target/sm.lock.
DirModeAcquireCreatesSentinel ==
  [][\A p \in Procs :
       (LockExclusive(p) /\ fresh[p] /\ single_file[p] = None) =>
         /\ Prefixes(target[p]) \subseteq dirs'
         /\ path'[p] = Join(target[p], LOCK_FILE)
         /\ PathExists(path[p])']_vars

\* ------------------------------------------------- single-file mode (C11)
\* two files of the same directory, with single_file strings that match
\* the file name or not
SingleFileCalls ==
  { <<<<"c", "d", "f">>, "f">>,
    <<<<"c", "d", "g">>, "zz">> }

\* each process locks a file of its own: odd processes f, even ones g
SingleFileCall(p) ==
  IF p % 2 = 1 THEN <<<<"c", "d", "f">>, "f">> ELSE <<<<"c", "d", "g">>, "zz">>

NextSingleFile ==
  \E p \in Procs :
    \/ AcquireDirsOk(p, SingleFileCall(p)[1], SingleFileCall(p)[2])
    \/ AcquireCreateOk(p)
    \/ LockExclusive(p)
    \/ Exists(p)
    \/ ReleaseRemove(p)
    \/ ReleaseUnlock(p)
    \/ Drop(p)

\* every acquire is a single-file acquire, on different files of one
\* directory; the OS lock primitive never reports an error
SpecSingleFile == Init /\ [][NextSingleFile]_vars

\* C11: in single-file mode the lock folder is the parent of target,
\* whatever string single_file carries: acquire creates the parent with its
\* ancestors, puts the sentinel at parent/sm.lock and does not create
\* target; two single-file acquires on different files of one directory
\* resolve to the same sentinel path and exclude each other.
SingleFileModeLocksParent ==
  /\ [][\A p \in Procs : \A c \in SingleFileCalls :
          AcquireDirsOk(p, c[1], c[2]) =>
            /\ path'[p] = Join(Parent(c[1]), LOCK_FILE)
            /\ Prefixes(Parent(c[1])) \subseteq dirs'
            /\ c[1] \notin dirs']_vars
  /\ [][\A p \in Procs :
          (AcquireCreateOk(p) /\ single_file[p] # None) =>
            /\ files'[Join(Parent(target[p]), LOCK_FILE)] = file'[p]
            /\ target[p] \notin dirs']_vars
  /\ [](\A p, q \in Procs :
          (p # q /\ HoldsLock(p) /\ HoldsLock(q)) => path[p] # path[q])

\* ------------------------------------------------ sequential cycles (C12)
\* p is between the call of acquire and the return of release
InCycle(p) == pc[p] \in {"create", "lock", "acquired", "unlock"}

\* a process takes a step only while no other process is inside an
\* acquire/release cycle: the cycles do not overlap
Turn(p) == \A q \in Procs \ {p} : ~InCycle(q)

NextSeq ==
  \E p \in Procs :
    \/ Turn(p) /\ \E c \in Calls : AcquireDirsOk(p, c[1], c[2])
    \/ Turn(p) /\ \E c \in Calls : AcquireDirsErr(p, c[1], c[2])
    \/ Turn(p) /\ AcquireCreateOk(p)
    \/ Turn(p) /\ AcquireCreateErr(p)
    \/ Turn(p) /\ LockExclusive(p)
    \/ Turn(p) /\ Exists(p)
    \/ Turn(p) /\ ReleaseRemove(p)
    \/ Turn(p) /\ ReleaseUnlock(p)
    \/ Turn(p) /\ Drop(p)

\* non-overlapping acquire/release cycles, no OS lock error
SpecSeq == Init /\ [][NextSeq]_vars

ReleaseCalled(p) == pc[p] \in {"unlock", "released"}

\* C13: a Lock moves only Unacquired -> Acquired -> Released: it becomes
\* Acquired only by acquire's return, a released Lock never becomes Acquired
\* again, release's unlock leaves it without the OS lock, and no later
\* release or exists on it takes the OS lock or creates a sentinel file.
LockNeverReacquired ==
  [][\A p \in Procs :
       /\ pc'[p] = "acquired" => pc[p] \in {"lock", "acquired"}
       /\ ReleaseCalled(p) =>
            /\ pc'[p] \in {"unlock", "released", "idle"}
            /\ ReleaseUnlock(p) => NotHolding(p)'
            /\ (NotHolding(p) /\ pc'[p] # "idle") => NotHolding(p)'
            /\ (Exists(p) \/ ReleaseRemove(p) \/ ReleaseUnlock(p) \/ UnlockErr(p))
                 => /\ dirs' = dirs
                    /\ \A s \in AllSentinels :
                         files[s] = NoInode => files'[s] = NoInode]_vars

\* release was called twice and exists once more on a Lock that has given
\* up its OS lock
ReleasedLockUsedAgain ==
  \E p \in Procs :
    /\ pc[p] = "released" /\ relCalls[p] = 2 /\ existsRet[p] = "false"
    /\ NotHolding(p)

\* ------------------------------------------------- order in release (C14)
\* C14: within release the sentinel file is unlinked before the OS lock is
\* released: from the moment release is about to unlock, the file the Lock
\* locked is not present at path any more, so the Lock never has given up
\* its OS lock with its sentinel file still at path.
UnlinkedBeforeUnlocked ==
  \A p \in Procs : ReleaseCalled(p) => files[path[p]] # file[p]

\* release is half done: the sentinel file is unlinked, the OS lock is
\* still held
HalfReleased ==
  \E p \in Procs :
    /\ pc[p] = "unlock" /\ relCalls[p] = 1
    /\ flock[file[p]] = p /\ files[path[p]] = NoInode

\* ------------------------------------- whose file release removes (C15)
\* q holds the OS lock through its own un-released Lock on the sentinel
\* file present at its path
HoldsSentinel(q) ==
  HoldsLock(q) /\ flock[file[q]] = q /\ files[path[q]] = file[q]

\* C15: release, first or repeated, never unlinks a sentinel file on which
\* a different process currently holds the OS lock through its own
\* un-released Lock.
ReleaseRemovesOwnFileOnly ==
  [][\A p \in Procs : ReleaseRemove(p) =>
       \A q \in Procs \ {p} :
         HoldsSentinel(q) => files'[path[q]] = file[q]]_vars

\* --------------------------------------- the file a waiter locks (C16)
\* C16: with no OS lock error, when acquire returns to a process that had
\* to wait, the file its handle is locked on is the file path names at that
\* moment.
WaiterLocksFileAtPath ==
  [][\A p \in Procs :
       (LockExclusive(p) /\ waited[p]) => files'[path[p]] = file[p]]_vars

\* ---------------------------------------------- contention, liveness (C17)
\* the call process p repeats: the processes contend on the sentinel path
\* c/d/sm.lock, in directory mode and in single-file mode; setup succeeds
ContendCall(p) ==
  IF p % 2 = 1 THEN <<<<"c", "d">>, None>> ELSE <<<<"c", "d", "f">>, "f">>

NextContend ==
  \E p \in Procs :
    \/ AcquireDirsOk(p, ContendCall(p)[1], ContendCall(p)[2])
    \/ AcquireCreateOk(p)
    \/ LockExclusive(p)
    \/ ReleaseRemove(p)
    \/ ReleaseUnlock(p)
    \/ Drop(p)

\* a process that obtained a Lock calls release on it or drops it
GivesUp(p) == HoldsLock(p) /\ (ReleaseRemove(p) \/ Drop(p))

\* every process goes on with the call it is in, the OS grants a lock that
\* stays free to the process blocked on it, and every holder eventually
\* calls release or drops its Lock; nothing makes a process call acquire
Fairness ==
  \A p \in Procs :
    /\ WF_vars(AcquireCreateOk(p))
    /\ WF_vars(LockExclusive(p))
    /\ WF_vars(ReleaseUnlock(p))
    /\ WF_vars(GivesUp(p))

SpecContend == Init /\ [][NextContend]_vars /\ Fairness

HolderWillFree(p) ==
  \E q \in Procs \ {p} :
    /\ flock[file[p]] = q
    /\ pc[q] \in {"acquired", "unlock"}

\* no process is blocked on a lock that nobody is going to free
NoDeadlock ==
  \A p \in Procs : (pc[p] = "lock" /\ ~CanLock(p)) => HolderWillFree(p)

====
